---------------------------- MODULE Spec2Model ----------------------------
(***************************************************************************)
(* Session state machine of MA-app.py (a Streamlit script).  Every user    *)
(* interaction reruns the script top to bottom; one action below is one    *)
(* interaction together with the rerun it causes.  A number input with a   *)
(* key keeps its value in st.session_state[key] across reruns, also when   *)
(* its label or its disabled flag changes.                                 *)
(*                                                                         *)
(*   inputs            st.session_state[k] for the seven keys of DEFAULTS  *)
(*   step              st.session_state.step                               *)
(*   original_snapshot st.session_state.original_snapshot                  *)
(*   mobile_view, explore_mode, scenario_name                              *)
(*                     values of the two toggles and of the selectbox      *)
(*   installed, event  history variables (not program state): the input    *)
(*                     set written by the latest initialisation, load or   *)
(*                     reset, and whether the latest handler was the       *)
(*                     initialisation, a load, a reset or another one      *)
(***************************************************************************)
EXTENDS Integers, Sequences, FiniteSets, TLC

VARIABLES inputs, step, original_snapshot, mobile_view, explore_mode,
          scenario_name, installed, event

vars == <<inputs, step, original_snapshot, mobile_view, explore_mode,
          scenario_name, installed, event>>

(***************************************************************************)
(* Bounds of the model.                                                    *)
(***************************************************************************)
\* a typed number is one of -MaxVal..MaxVal or the field's default
MaxVal == 1
\* at most MaxDirty fields hold a value that no preset holds for them
MaxDirty == 1

(***************************************************************************)
(* Arithmetic.  Python's true division of two integers is the correctly    *)
(* rounded quotient, so it is determined by the rational n/d: a quotient   *)
(* is kept as the fraction in lowest terms with a positive denominator.    *)
(* A zero divisor raises ZeroDivisionError.                                *)
(***************************************************************************)
abs(x) == IF x < 0 THEN -x ELSE x

RECURSIVE gcd(_, _)
gcd(a, b) == IF b = 0 THEN a ELSE gcd(b, a % b)

ZeroDivisionError == <<0, 0>>

truediv(n, d) ==
    IF d = 0 THEN ZeroDivisionError
    ELSE LET g == gcd(abs(n), abs(d))
             s == IF d < 0 THEN -1 ELSE 1
         IN  <<s * (n \div g), s * (d \div g)>>

\* the literal 0 of the else branches of lines 31-34
Zero == <<0, 1>>

(***************************************************************************)
(* calculate_results                                                       *)
(***************************************************************************)
Fields == {"unit_price", "net_saleable_tons", "processed_tons",
           "energy_per_ton", "labor_per_ton", "other_per_ton", "fixed_cost"}

\* calculate_results with Variable Cost taken over the net saleable tons
calculate_results_NetTons(inp) ==
    LET revenue == inp["unit_price"] * inp["net_saleable_tons"]
        var_cost_per_processed_ton ==
            inp["energy_per_ton"] + inp["labor_per_ton"] + inp["other_per_ton"]
        variable_cost == inp["net_saleable_tons"] * var_cost_per_processed_ton
        contribution == revenue - variable_cost
        ebitda == contribution - inp["fixed_cost"]
        var_cost_per_ton ==
            IF inp["processed_tons"] # 0
            THEN truediv(variable_cost, inp["processed_tons"]) ELSE Zero
        contribution_pct ==
            IF revenue # 0 THEN truediv(contribution, revenue) ELSE Zero
        ebitda_pct ==
            IF revenue # 0 THEN truediv(ebitda, revenue) ELSE Zero
        contrib_per_ton ==
            IF inp["processed_tons"] # 0
            THEN truediv(contribution, inp["processed_tons"]) ELSE Zero
    IN  "Revenue" :> revenue
     @@ "Variable Cost" :> variable_cost
     @@ "Contribution" :> contribution
     @@ "Fixed Cost" :> inp["fixed_cost"]
     @@ "EBITDA" :> ebitda
     @@ "Var Cost / Processed Ton" :> var_cost_per_ton
     @@ "Contribution / Processed Ton" :> contrib_per_ton
     @@ "Contribution %" :> contribution_pct
     @@ "EBITDA %" :> ebitda_pct
     @@ "_var_cost_per_processed_ton_component" :> var_cost_per_processed_ton

\* calculate_results with one guard for all four ratios
calculate_results_SharedGuard(inp) ==
    LET revenue == inp["unit_price"] * inp["net_saleable_tons"]
        var_cost_per_processed_ton ==
            inp["energy_per_ton"] + inp["labor_per_ton"] + inp["other_per_ton"]
        variable_cost == inp["processed_tons"] * var_cost_per_processed_ton
        contribution == revenue - variable_cost
        ebitda == contribution - inp["fixed_cost"]
        ok == inp["processed_tons"] # 0 /\ revenue # 0
        var_cost_per_ton ==
            IF ok THEN truediv(variable_cost, inp["processed_tons"]) ELSE Zero
        contribution_pct ==
            IF ok THEN truediv(contribution, revenue) ELSE Zero
        ebitda_pct ==
            IF ok THEN truediv(ebitda, revenue) ELSE Zero
        contrib_per_ton ==
            IF ok THEN truediv(contribution, inp["processed_tons"]) ELSE Zero
    IN  "Revenue" :> revenue
     @@ "Variable Cost" :> variable_cost
     @@ "Contribution" :> contribution
     @@ "Fixed Cost" :> inp["fixed_cost"]
     @@ "EBITDA" :> ebitda
     @@ "Var Cost / Processed Ton" :> var_cost_per_ton
     @@ "Contribution / Processed Ton" :> contrib_per_ton
     @@ "Contribution %" :> contribution_pct
     @@ "EBITDA %" :> ebitda_pct
     @@ "_var_cost_per_processed_ton_component" :> var_cost_per_processed_ton

calculate_results(inp) ==
    LET revenue == inp["unit_price"] * inp["net_saleable_tons"]
        var_cost_per_processed_ton ==
            inp["energy_per_ton"] + inp["labor_per_ton"] + inp["other_per_ton"]
        variable_cost == inp["processed_tons"] * var_cost_per_processed_ton
        contribution == revenue - variable_cost
        ebitda == contribution - inp["fixed_cost"]
        var_cost_per_ton ==
            IF inp["processed_tons"] # 0
            THEN truediv(variable_cost, inp["processed_tons"]) ELSE Zero
        contribution_pct ==
            IF revenue # 0 THEN truediv(contribution, revenue) ELSE Zero
        ebitda_pct ==
            IF revenue # 0 THEN truediv(ebitda, revenue) ELSE Zero
        contrib_per_ton ==
            IF inp["processed_tons"] # 0
            THEN truediv(contribution, inp["processed_tons"]) ELSE Zero
    IN  "Revenue" :> revenue
     @@ "Variable Cost" :> variable_cost
     @@ "Contribution" :> contribution
     @@ "Fixed Cost" :> inp["fixed_cost"]
     @@ "EBITDA" :> ebitda
     @@ "Var Cost / Processed Ton" :> var_cost_per_ton
     @@ "Contribution / Processed Ton" :> contrib_per_ton
     @@ "Contribution %" :> contribution_pct
     @@ "EBITDA %" :> ebitda_pct
     @@ "_var_cost_per_processed_ton_component" :> var_cost_per_processed_ton

\* lines 226-228: every run recomputes the results from the session's inputs
\* and reads the baseline from the session; neither is stored anywhere else
current == calculate_results(inputs)

baseline == original_snapshot

(***************************************************************************)
(* DEFAULTS, SCENARIOS                                                     *)
(***************************************************************************)
DEFAULTS ==
    [unit_price |-> 200, net_saleable_tons |-> 1000, processed_tons |-> 1100,
     energy_per_ton |-> 15, labor_per_ton |-> 20, other_per_ton |-> 10,
     fixed_cost |-> 120000]

ScenarioNames == {"Base case", "Energy spike", "Price pressure", "Lower yield"}

SCENARIOS ==
    "Base case" :> DEFAULTS
 @@ "Energy spike" :> [DEFAULTS EXCEPT !["energy_per_ton"] = 30]
 @@ "Price pressure" :> [DEFAULTS EXCEPT !["unit_price"] = 160]
 @@ "Lower yield" :> [DEFAULTS EXCEPT !["processed_tons"] = 1200,
                                      !["net_saleable_tons"] = 950]

\* the first option of the selectbox of line 160
FirstScenario == "Base case"

(***************************************************************************)
(* Input locking                                                           *)
(***************************************************************************)
Steps == 1..6

allowed(s) ==
    CASE s = 1 -> {"unit_price"}
      [] s = 2 -> {"energy_per_ton", "labor_per_ton", "other_per_ton"}
      [] s = 3 -> {"net_saleable_tons"}
      [] s = 4 -> {"fixed_cost"}
      [] s = 5 -> {"labor_per_ton"}
      [] s = 6 -> {"other_per_ton", "processed_tons"}

\* disabled_for without the explore-mode override
disabled_for_NoExplore(control_name) == control_name \notin allowed(step)

disabled_for(control_name) ==
    IF explore_mode THEN FALSE ELSE control_name \notin allowed(step)

(***************************************************************************)
(* Values a user types into a number input (no min_value, no max_value).   *)
(***************************************************************************)
PresetValues == [f \in Fields |-> {SCENARIOS[n][f] : n \in ScenarioNames}]

EditValues(f) == (-MaxVal..MaxVal) \cup {DEFAULTS[f]}

Dirty(inp) == {f \in Fields : inp[f] \notin PresetValues[f]}

(***************************************************************************)
(* Session initialisation: lines 94-102, toggles' and selectbox's defaults *)
(***************************************************************************)
Init ==
    /\ inputs = DEFAULTS
    /\ step = 1
    /\ original_snapshot = calculate_results(DEFAULTS)
    /\ mobile_view = TRUE
    /\ explore_mode = FALSE
    /\ scenario_name = FirstScenario
    /\ installed = DEFAULTS
    /\ event = "init"

(***************************************************************************)
(* Handlers                                                                *)
(***************************************************************************)
ToggleMobile ==
    /\ mobile_view' = ~mobile_view
    /\ event' = "other"
    /\ UNCHANGED <<inputs, step, original_snapshot, explore_mode,
                   scenario_name, installed>>

ToggleExplore ==
    /\ explore_mode' = ~explore_mode
    /\ event' = "other"
    /\ UNCHANGED <<inputs, step, original_snapshot, mobile_view,
                   scenario_name, installed>>

\* the radio of lines 125-131
RadioStep(s) ==
    /\ ~mobile_view
    /\ step' = s
    /\ event' = "other"
    /\ UNCHANGED <<inputs, original_snapshot, mobile_view, explore_mode,
                   scenario_name, installed>>

\* the selectbox of lines 183-189
SelectStep(s) ==
    /\ mobile_view
    /\ step' = s
    /\ event' = "other"
    /\ UNCHANGED <<inputs, original_snapshot, mobile_view, explore_mode,
                   scenario_name, installed>>

\* Prev without the step > 1 test
Prev_NoGuard ==
    /\ ~mobile_view
    /\ step' = step - 1
    /\ event' = "other"
    /\ UNCHANGED <<inputs, original_snapshot, mobile_view, explore_mode,
                   scenario_name, installed>>

Prev ==
    /\ ~mobile_view
    /\ step' = IF step > 1 THEN step - 1 ELSE step
    /\ event' = "other"
    /\ UNCHANGED <<inputs, original_snapshot, mobile_view, explore_mode,
                   scenario_name, installed>>

Next_ ==
    /\ ~mobile_view
    /\ step' = IF step < 6 THEN step + 1 ELSE step
    /\ event' = "other"
    /\ UNCHANGED <<inputs, original_snapshot, mobile_view, explore_mode,
                   scenario_name, installed>>

SelectScenario(name) ==
    /\ scenario_name' = name
    /\ event' = "other"
    /\ UNCHANGED <<inputs, step, original_snapshot, mobile_view,
                   explore_mode, installed>>

\* a load that writes only the keys the preset overrides
LoadScenario_OnlyOverrides ==
    /\ inputs' = [k \in Fields |->
                    IF SCENARIOS[scenario_name][k] # DEFAULTS[k]
                    THEN SCENARIOS[scenario_name][k] ELSE inputs[k]]
    /\ original_snapshot' = calculate_results(SCENARIOS[scenario_name])
    /\ installed' = SCENARIOS[scenario_name]
    /\ event' = "load"
    /\ UNCHANGED <<step, mobile_view, explore_mode, scenario_name>>

\* a load that takes the baseline from the defaults
LoadScenario_StaleSnapshot ==
    /\ inputs' = [k \in Fields |-> SCENARIOS[scenario_name][k]]
    /\ original_snapshot' = calculate_results(DEFAULTS)
    /\ installed' = SCENARIOS[scenario_name]
    /\ event' = "load"
    /\ UNCHANGED <<step, mobile_view, explore_mode, scenario_name>>

LoadScenario ==
    /\ inputs' = [k \in Fields |-> SCENARIOS[scenario_name][k]]
    /\ original_snapshot' = calculate_results(SCENARIOS[scenario_name])
    /\ installed' = SCENARIOS[scenario_name]
    /\ event' = "load"
    /\ UNCHANGED <<step, mobile_view, explore_mode, scenario_name>>

\* a reset that leaves the baseline alone
ResetToDefaults_KeepsSnapshot ==
    /\ inputs' = [k \in Fields |-> DEFAULTS[k]]
    /\ installed' = DEFAULTS
    /\ event' = "reset"
    /\ UNCHANGED <<step, original_snapshot, mobile_view, explore_mode,
                   scenario_name>>

ResetToDefaults ==
    /\ inputs' = [k \in Fields |-> DEFAULTS[k]]
    /\ original_snapshot' = calculate_results(DEFAULTS)
    /\ installed' = DEFAULTS
    /\ event' = "reset"
    /\ UNCHANGED <<step, mobile_view, explore_mode, scenario_name>>

\* an edit that also refreshes the baseline
Edit_RefreshesSnapshot(f, v) ==
    /\ ~disabled_for(f)
    /\ inputs' = [inputs EXCEPT ![f] = v]
    /\ original_snapshot' = calculate_results(inputs')
    /\ event' = "other"
    /\ UNCHANGED <<step, mobile_view, explore_mode, scenario_name, installed>>

\* a number input of render_inputs: a disabled widget takes no edit
Edit(f, v) ==
    /\ ~disabled_for(f)
    /\ inputs' = [inputs EXCEPT ![f] = v]
    /\ event' = "other"
    /\ UNCHANGED <<step, original_snapshot, mobile_view, explore_mode,
                   scenario_name, installed>>

UserEdit ==
    \E f \in Fields : \E v \in EditValues(f) :
        /\ Edit(f, v)
        /\ Cardinality(Dirty(inputs')) <= MaxDirty

Next ==
    \/ ToggleMobile
    \/ ToggleExplore
    \/ \E s \in Steps : RadioStep(s)
    \/ \E s \in Steps : SelectStep(s)
    \/ Prev
    \/ Next_
    \/ \E name \in ScenarioNames : SelectScenario(name)
    \/ LoadScenario
    \/ ResetToDefaults
    \/ UserEdit

Spec == Init /\ [][Next]_vars

(***************************************************************************)
(* The calculator on its own: the inputs are any seven numbers of          *)
(* -MaxVal..MaxVal, or the defaults (every such record is one a session     *)
(* reaches by edits), and each run applies calculate_results to them.      *)
(***************************************************************************)
CalcInputs ==
    [unit_price : -MaxVal..MaxVal, net_saleable_tons : -MaxVal..MaxVal,
     processed_tons : -MaxVal..MaxVal, energy_per_ton : -MaxVal..MaxVal,
     labor_per_ton : -MaxVal..MaxVal, other_per_ton : -MaxVal..MaxVal,
     fixed_cost : -MaxVal..MaxVal]

InitCalc ==
    /\ inputs \in CalcInputs \cup {DEFAULTS}
    /\ step = 1
    /\ original_snapshot = calculate_results(DEFAULTS)
    /\ mobile_view = TRUE
    /\ explore_mode = FALSE
    /\ scenario_name = FirstScenario
    /\ installed = DEFAULTS
    /\ event = "other"

NextCalc ==
    \/ ToggleMobile
    \/ ToggleExplore

SpecCalc == InitCalc /\ [][NextCalc]_vars

(***************************************************************************)
(* The comparison table of render_lesson_and_results and its styling.      *)
(* All five metrics are integers, so a float() of them is exact.           *)
(***************************************************************************)
metrics == <<"Revenue", "Variable Cost", "Contribution", "Fixed Cost", "EBITDA">>

\* one row per metric: [cur, base, var]
rows(cur, base) ==
    [i \in 1..Len(metrics) |->
        <<cur[metrics[i]], base[metrics[i]],
          cur[metrics[i]] - base[metrics[i]]>>]

\* the table of the latest run
df == rows(current, baseline)

\* eps = 1e-9 = 1 / EpsInv
EpsInv == 1000000000

\* x <= eps for an integer x: x <= 1/EpsInv iff x <= floor(1/EpsInv)
leq_eps(x) == x <= 1 \div EpsInv

\* style_row without the tolerance test on the current column
style_row_NoTolerance(row) ==
    LET current_val == row[1]
        original_val == row[2]
        variance_val == row[3]
        cur_style ==
            IF current_val <= original_val
            THEN "color: red; font-weight: 600"
            ELSE "color: green; font-weight: 600"
        orig_style == "color: black"
        var_style ==
            IF leq_eps(abs(variance_val)) THEN "color: black"
            ELSE IF variance_val < 0
                 THEN "color: red; font-weight: 600"
                 ELSE "color: green; font-weight: 600"
    IN  <<cur_style, orig_style, var_style>>

style_row(row) ==
    LET current_val == row[1]
        original_val == row[2]
        variance_val == row[3]
        cur_style ==
            IF leq_eps(abs(current_val - original_val)) THEN "color: black"
            ELSE IF current_val < original_val
                 THEN "color: red; font-weight: 600"
                 ELSE "color: green; font-weight: 600"
        orig_style == "color: black"
        var_style ==
            IF leq_eps(abs(variance_val)) THEN "color: black"
            ELSE IF variance_val < 0
                 THEN "color: red; font-weight: 600"
                 ELSE "color: green; font-weight: 600"
    IN  <<cur_style, orig_style, var_style>>

\* styler.apply(style_row, axis=1): one triple of styles per row
style_comparison_table(df_raw) ==
    [i \in DOMAIN df_raw |-> style_row(df_raw[i])]

\* lines 285-290: the raw table in the mobile view, the table and its styles
\* in the desktop view
render_table ==
    IF mobile_view THEN <<df>> ELSE <<df, style_comparison_table(df)>>

(***************************************************************************)
(* Values the claims are stated against, written out rather than taken     *)
(* from the definitions above.                                             *)
(***************************************************************************)
ExpectedDefaults ==
    [unit_price |-> 200, net_saleable_tons |-> 1000, processed_tons |-> 1100,
     energy_per_ton |-> 15, labor_per_ton |-> 20, other_per_ton |-> 10,
     fixed_cost |-> 120000]

ExpectedPreset ==
    "Base case" :> ExpectedDefaults
 @@ "Energy spike" :>
        [unit_price |-> 200, net_saleable_tons |-> 1000, processed_tons |-> 1100,
         energy_per_ton |-> 30, labor_per_ton |-> 20, other_per_ton |-> 10,
         fixed_cost |-> 120000]
 @@ "Price pressure" :>
        [unit_price |-> 160, net_saleable_tons |-> 1000, processed_tons |-> 1100,
         energy_per_ton |-> 15, labor_per_ton |-> 20, other_per_ton |-> 10,
         fixed_cost |-> 120000]
 @@ "Lower yield" :>
        [unit_price |-> 200, net_saleable_tons |-> 950, processed_tons |-> 1200,
         energy_per_ton |-> 15, labor_per_ton |-> 20, other_per_ton |-> 10,
         fixed_cost |-> 120000]

\* r is the quotient n/d: a fraction with positive denominator equal to n/d
IsQuotient(r, n, d) == r[2] > 0 /\ r[1] * d = r[2] * n

Neutral == "color: black"
Unfavorable == "color: red; font-weight: 600"
Favorable == "color: green; font-weight: 600"

\* the marker of a value x against a reference y
Marker(x, y) == IF x = y THEN Neutral ELSE IF x < y THEN Unfavorable ELSE Favorable

(***************************************************************************)
(* C1: for every input record (zero and negative values included) the      *)
(* latest results hold Revenue = unit_price * net_saleable_tons, Variable  *)
(* Cost = processed_tons * (energy + labor + other), Contribution =        *)
(* Revenue - Variable Cost, Fixed Cost = the input fixed_cost and EBITDA = *)
(* Contribution - fixed_cost; for the default inputs they are 200000,      *)
(* 49500, 150500, 30500, and Var Cost / Processed Ton is 45.               *)
(***************************************************************************)
C1_Waterfall ==
    /\ current["Revenue"] = inputs["unit_price"] * inputs["net_saleable_tons"]
    /\ current["Variable Cost"] =
          inputs["processed_tons"] *
          (inputs["energy_per_ton"] + inputs["labor_per_ton"] + inputs["other_per_ton"])
    /\ current["Contribution"] = current["Revenue"] - current["Variable Cost"]
    /\ current["Fixed Cost"] = inputs["fixed_cost"]
    /\ current["EBITDA"] = current["Contribution"] - inputs["fixed_cost"]
    /\ inputs = ExpectedDefaults =>
          /\ current["Revenue"] = 200000
          /\ current["Variable Cost"] = 49500
          /\ current["Contribution"] = 150500
          /\ current["EBITDA"] = 30500
          /\ current["Var Cost / Processed Ton"] = <<45, 1>>

\* a run (after the explore toggle) over inputs with a negative price, a zero
\* fixed cost and a negative EBITDA
C1_Witness ==
    /\ explore_mode
    /\ inputs["unit_price"] < 0
    /\ inputs["net_saleable_tons"] > 0
    /\ inputs["processed_tons"] > 0
    /\ inputs["energy_per_ton"] > 0
    /\ inputs["fixed_cost"] = 0
    /\ current["Revenue"] < 0
    /\ current["Variable Cost"] > 0
    /\ current["EBITDA"] = current["Revenue"] - current["Variable Cost"]

(***************************************************************************)
(* C2: no ratio ever is a division fault; with processed_tons = 0 both     *)
(* per-ton ratios are 0; with Revenue = 0 (unit_price = 0 or               *)
(* net_saleable_tons = 0) both percentages are 0; and each ratio whose own *)
(* denominator is not zero is the true quotient, whatever the other        *)
(* denominator is.                                                         *)
(***************************************************************************)
C2_ZeroGuards ==
    /\ \A k \in {"Var Cost / Processed Ton", "Contribution / Processed Ton",
                 "Contribution %", "EBITDA %"} : current[k] # ZeroDivisionError
    /\ inputs["processed_tons"] = 0 =>
          /\ current["Var Cost / Processed Ton"] = <<0, 1>>
          /\ current["Contribution / Processed Ton"] = <<0, 1>>
    /\ (inputs["unit_price"] = 0 \/ inputs["net_saleable_tons"] = 0) =>
          current["Revenue"] = 0
    /\ current["Revenue"] = 0 =>
          /\ current["Contribution %"] = <<0, 1>>
          /\ current["EBITDA %"] = <<0, 1>>
    /\ inputs["processed_tons"] # 0 =>
          /\ IsQuotient(current["Var Cost / Processed Ton"],
                        current["Variable Cost"], inputs["processed_tons"])
          /\ IsQuotient(current["Contribution / Processed Ton"],
                        current["Contribution"], inputs["processed_tons"])
    /\ current["Revenue"] # 0 =>
          /\ IsQuotient(current["Contribution %"],
                        current["Contribution"], current["Revenue"])
          /\ IsQuotient(current["EBITDA %"], current["EBITDA"], current["Revenue"])

\* a run (after the explore toggle): processed_tons is zero, Revenue is not,
\* and the percentages are not zeroed
C2_Witness ==
    /\ explore_mode
    /\ inputs["processed_tons"] = 0
    /\ current["Revenue"] # 0
    /\ current["Var Cost / Processed Ton"] = <<0, 1>>
    /\ current["Contribution / Processed Ton"] = <<0, 1>>
    /\ current["Contribution %"] # <<0, 1>>
    /\ current["EBITDA %"] # <<0, 1>>

(***************************************************************************)
(* C3: right after a scenario load all seven inputs are the selected       *)
(* preset merged over the defaults and the baseline is the results of that *)
(* full preset; after loading Energy spike the baseline has Variable Cost  *)
(* 66000 and EBITDA 14000.                                                 *)
(***************************************************************************)
C3_LoadInstalls ==
    event = "load" =>
        /\ scenario_name \in DOMAIN ExpectedPreset
        /\ \A f \in Fields : inputs[f] = ExpectedPreset[scenario_name][f]
        /\ original_snapshot = calculate_results(ExpectedPreset[scenario_name])
        /\ scenario_name = "Energy spike" =>
              /\ original_snapshot["Variable Cost"] = 66000
              /\ original_snapshot["EBITDA"] = 14000

\* Energy spike was just loaded
C3_Witness ==
    /\ event = "load"
    /\ scenario_name = "Energy spike"
    /\ inputs["energy_per_ton"] = 30
    /\ original_snapshot["EBITDA"] = 14000

(***************************************************************************)
(* C4: right after a reset, whatever came before, the seven inputs are the *)
(* defaults exactly and the baseline is calculate_results(DEFAULTS).       *)
(***************************************************************************)
C4_ResetRestores ==
    event = "reset" =>
        /\ \A f \in Fields : inputs[f] = ExpectedDefaults[f]
        /\ original_snapshot = calculate_results(ExpectedDefaults)
        /\ original_snapshot["Revenue"] = 200000
        /\ original_snapshot["EBITDA"] = 30500

\* a reset after a step change, both toggles and a selection of Lower yield
C4_Witness ==
    /\ event = "reset"
    /\ step = 4
    /\ ~mobile_view
    /\ explore_mode
    /\ scenario_name = "Lower yield"

(***************************************************************************)
(* C5: the baseline is the results of the inputs written by the latest     *)
(* initialisation, load or reset, and every other handler (an edit, a step *)
(* change by selector, radio, Prev or Next, a toggle, a scenario           *)
(* selection) leaves it unchanged.                                         *)
(***************************************************************************)
C5_BaselineFrame ==
    /\ [](original_snapshot = calculate_results(installed))
    /\ [][event' = "other" => original_snapshot' = original_snapshot]_vars

\* inputs were edited away from the installed set and the baseline stayed
C5_Witness ==
    /\ event = "other"
    /\ inputs # installed
    /\ current["EBITDA"] # original_snapshot["EBITDA"]
    /\ original_snapshot = calculate_results(installed)

(***************************************************************************)
(* C6: with explore mode off a field takes an edit at step s iff it is in  *)
(* the step's unlocked set, and a handler other than load and reset        *)
(* changes no input field outside that set; with explore mode on every     *)
(* field takes an edit at every step.                                      *)
(***************************************************************************)
Unlocked ==
    <<{"unit_price"},
      {"energy_per_ton", "labor_per_ton", "other_per_ton"},
      {"net_saleable_tons"},
      {"fixed_cost"},
      {"labor_per_ton"},
      {"other_per_ton", "processed_tons"}>>

C6_LockPolicy ==
    /\ [](\A f \in Fields :
            /\ ~explore_mode => ((ENABLED Edit(f, 0)) <=> f \in Unlocked[step])
            /\ explore_mode => ENABLED Edit(f, 0))
    /\ [][(event' = "other" /\ ~explore_mode) =>
            \A f \in Fields : inputs'[f] # inputs[f] => f \in Unlocked[step]]_vars

\* explore mode is off, the step is 6 and only processed_tons was edited
C6_Witness ==
    /\ ~explore_mode
    /\ step = 6
    /\ event = "other"
    /\ inputs["processed_tons"] # installed["processed_tons"]
    /\ \A f \in Fields \ {"processed_tons"} : inputs[f] = installed[f]

C9_StepRange ==
    /\ [](step \in 1..6 /\ (event = "init" => step = 1))
    /\ [][Prev => step' = (IF step = 1 THEN 1 ELSE step - 1)]_vars
    /\ [][Next_ => step' = (IF step = 6 THEN 6 ELSE step + 1)]_vars
    /\ [][event' \in {"load", "reset"} => step' = step]_vars

\* the last step, reached in the desktop view where Next is offered
C9_Witness ==
    /\ step = 6
    /\ ~mobile_view
    /\ ENABLED Next_
    /\ event = "other"

(***************************************************************************)
(* C10: whenever the inputs equal the set written by the latest            *)
(* initialisation, load or reset, every row of the table has current =     *)
(* baseline and variance 0 and is marked neutral in all three columns.     *)
(***************************************************************************)
C10_NeutralAtInstalled ==
    inputs = installed =>
        LET d == df
            t == style_comparison_table(d)
        IN  \A i \in 1..5 :
                /\ d[i][1] = d[i][2]
                /\ d[i][3] = 0
                /\ t[i] = <<Neutral, Neutral, Neutral>>

\* Lower yield is loaded, a later handler ran, and the inputs are the preset
C10_Witness ==
    /\ installed = ExpectedPreset["Lower yield"]
    /\ inputs = installed
    /\ event = "other"
    /\ explore_mode
    /\ df[1] = <<190000, 190000, 0>>

=============================================================================
